---- MODULE Spec2Model ----
(***************************************************************************)
(* A model of chaos_kitten/brain/attack_planner.py: the AttackPlanner      *)
(* object (endpoints, attack_profiles), its two operations                 *)
(* load_attack_profiles and plan_attacks, called by several threads on one *)
(* planner, and the profile documents found under toys_path.               *)
(***************************************************************************)
EXTENDS Integers, Sequences, FiniteSets, TLC

\* Number of threads that call the planner's methods concurrently.
NumThreads == 2

Threads == 1..NumThreads

(***************************************************************************)
(* Data: endpoints (the argument of plan_attacks) and profile documents.   *)
(***************************************************************************)

\* dict.get(key, default)
get(d, key, default) == IF key \in DOMAIN d THEN d[key] ELSE default

\* Python truth value of a list or a dict: non-empty.
Truthy(x) == DOMAIN x # {}

ParamQ == [name |-> "q", in |-> "query", type |-> "string"]

\* An endpoint with neither a "parameters" nor a "requestBody" key.
EpBare == [path |-> "/health", method |-> "GET"]

\* An endpoint whose parameters list and requestBody dict are both empty.
EpEmpty == [path |-> "/ping", method |-> "GET", parameters |-> <<>>, requestBody |-> <<>>]

\* The endpoint of the docstring's shape with one query parameter q.
EpSearch == [path |-> "/search", method |-> "GET", parameters |-> <<ParamQ>>]

\* An endpoint with a request body only.
EpLogin == [path |-> "/api/login", method |-> "post", requestBody |-> [q |-> "string"]]

\* An endpoint with both a parameter and a request body.
EpItems == [path |-> "/items", method |-> "put", parameters |-> <<ParamQ>>, requestBody |-> [q |-> "string"]]

Endpoints == {EpBare, EpEmpty, EpSearch, EpLogin, EpItems}

\* A profile document: the fields of AttackProfile.
Profile(n, sev, pl, tf) ==
  [name |-> n, category |-> "injection", severity |-> sev, description |-> "",
   payloads |-> pl, target_fields |-> tf, success_indicators |-> [status_code |-> 500],
   remediation |-> "", references |-> <<>>]

SqliProbe == Profile("sqli_probe", "high", <<"' OR 1=1--", "'; DROP TABLE x;--">>, {"q"})
SqliProbeLow == Profile("sqli_probe", "low", <<"' OR 1=1--">>, {"q"})
CmdiProbe == Profile("cmdi_probe", "high", <<"; id">>, {"q"})
XssProbe == Profile("xss_probe", "critical", <<"<script>">>, {"q"})
HeaderProbe == Profile("header_probe", "low", <<"X-Debug: 1">>, {})

\* A document that also declares the names of the profiles it depends on.
WithDeps(p, deps) == [x \in DOMAIN p \cup {"depends_on"} |-> IF x = "depends_on" THEN deps ELSE p[x]]

depends_on(p) == get(p, "depends_on", {})

ChainA == WithDeps(Profile("chain_a", "high", <<"a1">>, {"q"}), {"chain_b"})
ChainB == WithDeps(Profile("chain_b", "high", <<"b1", "b2">>, {"q"}), {})
CycleA == WithDeps(Profile("cycle_a", "high", <<"a1">>, {"q"}), {"cycle_b"})
CycleB == WithDeps(Profile("cycle_b", "high", <<"b1">>, {"q"}), {"cycle_a"})

\* The contents the toys directory can have when a load scans it.
Dirs ==
  { {},
    {SqliProbe},
    {SqliProbe, CmdiProbe, XssProbe},
    {HeaderProbe, SqliProbe},
    {SqliProbe, SqliProbeLow},
    {ChainA, ChainB},
    {CycleA, CycleB} }

(***************************************************************************)
(* The planner's pure code.                                                *)
(***************************************************************************)

\* What a call hands back: a returned value, or the exception it raised.
Returned(v) == [exc |-> "none", value |-> v]

\* load_attack_profiles: the body is `pass`; the profile list is left as it is.
load_attack_profiles(profiles, dir) == profiles

\* A variant whose target_param tests body where the code tests params.
plan_attacks_swapped(endpoint) ==
  LET params == get(endpoint, "parameters", <<>>)
      body == get(endpoint, "requestBody", <<>>)
  IN IF Truthy(params) \/ Truthy(body)
     THEN << [type |-> "sql_injection",
              name |-> "Basic SQLi Probe",
              description |-> "Injects a basic SQL payload to test for errors",
              payload |-> [q |-> "' OR 1=1 --"],
              target_param |-> IF Truthy(body) THEN "q" ELSE "body",
              expected_status |-> 500] >>
     ELSE <<>>

\* plan_attacks: the rule-based stub.
plan_attacks(endpoint) ==
  LET path == get(endpoint, "path", "")
      method == get(endpoint, "method", "GET")
      params == get(endpoint, "parameters", <<>>)
      body == get(endpoint, "requestBody", <<>>)
  IN IF Truthy(params) \/ Truthy(body)
     THEN << [type |-> "sql_injection",
              name |-> "Basic SQLi Probe",
              description |-> "Injects a basic SQL payload to test for errors",
              payload |-> [q |-> "' OR 1=1 --"],
              target_param |-> IF Truthy(params) THEN "q" ELSE "body",
              expected_status |-> 500] >>
     ELSE <<>>

(***************************************************************************)
(* State.                                                                  *)
(***************************************************************************)
VARIABLES
  endpoints,        \* self.endpoints
  attack_profiles,  \* self.attack_profiles
  pc,               \* per thread: where it is in its current or last call
  arg,              \* per thread: the endpoint of its current or last call, if plan_attacks
  ret,              \* per thread: what its last call returned, once it has
  loaded,           \* history: some load_attack_profiles call has returned normally
  toys,             \* history: the documents under toys_path at the last load that returned
  prev,             \* history: per endpoint, the plan returned for it since the last load
  repeat            \* history: the thread whose plan, the last returned, repeated one
                    \* made for the same endpoint since the last load; 0 when none did

vars == <<endpoints, attack_profiles, pc, arg, ret, loaded, toys, prev, repeat>>

NotPlanned == [seen |-> FALSE, value |-> <<>>]

\* A thread that is in no plan_attacks call and holds the result of none.
NoArg == <<>>

\* __init__
Init ==
  /\ endpoints = <<EpSearch, EpLogin>>
  /\ attack_profiles = <<>>
  /\ pc = [t \in Threads |-> "idle"]
  /\ arg = [t \in Threads |-> NoArg]
  /\ ret = [t \in Threads |-> Returned(<<>>)]
  /\ loaded = FALSE
  /\ toys = {}
  /\ prev = [e \in Endpoints |-> NotPlanned]
  /\ repeat = 0

AtRest(t) == pc[t] \in {"idle", "load_done", "plan_done"}

\* A thread enters load_attack_profiles. Nothing guards the entry.
LoadCall(t) ==
  /\ AtRest(t)
  /\ pc' = [pc EXCEPT ![t] = "load"]
  /\ arg' = [arg EXCEPT ![t] = NoArg]
  /\ ret' = [ret EXCEPT ![t] = Returned(<<>>)]
  /\ repeat' = 0
  /\ prev' = [e \in Endpoints |-> NotPlanned]
  /\ UNCHANGED <<endpoints, attack_profiles, loaded, toys>>

\* load_attack_profiles returns None, with dir the documents under toys_path.
LoadReturn(t, dir) ==
  /\ pc[t] = "load"
  /\ attack_profiles' = load_attack_profiles(attack_profiles, dir)
  /\ ret' = [ret EXCEPT ![t] = Returned(<<>>)]
  /\ pc' = [pc EXCEPT ![t] = "load_done"]
  /\ loaded' = TRUE
  /\ toys' = dir
  /\ prev' = [e \in Endpoints |-> NotPlanned]
  /\ repeat' = 0
  /\ UNCHANGED <<endpoints, arg>>

\* A thread calls plan_attacks(endpoint).
PlanCall(t, endpoint) ==
  /\ AtRest(t)
  /\ pc' = [pc EXCEPT ![t] = "plan"]
  /\ arg' = [arg EXCEPT ![t] = endpoint]
  /\ ret' = [ret EXCEPT ![t] = Returned(<<>>)]
  /\ repeat' = IF repeat = t THEN 0 ELSE repeat
  /\ UNCHANGED <<endpoints, attack_profiles, loaded, toys, prev>>

\* A variant that keeps the attacks of earlier calls for the same endpoint
\* and appends to them.
PlanReturn_accumulating(t) ==
  /\ pc[t] = "plan"
  /\ ret' = [ret EXCEPT ![t] = Returned(prev[arg[t]].value \o plan_attacks(arg[t]))]
  /\ pc' = [pc EXCEPT ![t] = "plan_done"]
  /\ prev' = [prev EXCEPT ![arg[t]] = [seen |-> TRUE, value |-> ret'[t].value]]
  /\ repeat' = IF prev[arg[t]].seen THEN t ELSE 0
  /\ UNCHANGED <<endpoints, attack_profiles, arg, loaded, toys>>

\* plan_attacks returns its list of attacks.
PlanReturn(t) ==
  /\ pc[t] = "plan"
  /\ ret' = [ret EXCEPT ![t] = Returned(plan_attacks(arg[t]))]
  /\ pc' = [pc EXCEPT ![t] = "plan_done"]
  /\ prev' = [prev EXCEPT ![arg[t]] = [seen |-> TRUE, value |-> ret'[t].value]]
  /\ repeat' = IF prev[arg[t]].seen THEN t ELSE 0
  /\ UNCHANGED <<endpoints, attack_profiles, arg, loaded, toys>>

Next ==
  \E t \in Threads :
    \/ LoadCall(t)
    \/ \E dir \in Dirs : LoadReturn(t, dir)
    \/ \E endpoint \in Endpoints : PlanCall(t, endpoint)
    \/ PlanReturn(t)

Spec == Init /\ [][Next]_vars

(***************************************************************************)
(* Vocabulary of the properties.                                           *)
(***************************************************************************)

\* Thread t completes a plan_attacks call in this step.
PlanReturns(t) == pc[t] = "plan" /\ pc'[t] = "plan_done"

\* Thread t completes a load_attack_profiles call in this step.
LoadReturns(t) == pc[t] = "load" /\ pc'[t] = "load_done"

HasDuplicateName(dir) == \E a, b \in dir : a # b /\ a.name = b.name

HasParams(e) == "parameters" \in DOMAIN e /\ Len(e.parameters) > 0

HasBody(e) == "requestBody" \in DOMAIN e /\ DOMAIN e.requestBody # {}

\* The targets of an endpoint: its parameters and its request-body fields.
Fields(e) ==
  (IF HasParams(e)
   THEN {[name |-> e.parameters[i].name, location |-> e.parameters[i].in] : i \in 1..Len(e.parameters)}
   ELSE {})
  \cup
  (IF HasBody(e)
   THEN {[name |-> k, location |-> "body"] : k \in DOMAIN e.requestBody}
   ELSE {})

GlobalProfiles(dir) == {p \in dir : p.target_fields = {}}

Matches(p, e) == \E f \in Fields(e) : f.name \in p.target_fields

\* The keys of a step as the docstring of plan_attacks lists them.
StepKeys == {"profile_name", "endpoint", "method", "field", "location", "expected_indicators", "severity"}

IsStep(s) == StepKeys \subseteq DOMAIN s /\ ("payload" \in DOMAIN s \/ "payloads" \in DOMAIN s)

\* The positions of profile p's steps for the field named fname in a plan.
StepsAt(plan, p, fname) ==
  {i \in 1..Len(plan) : IsStep(plan[i]) /\ plan[i].profile_name = p.name /\ plan[i].field = fname}

\* The positions of all of profile p's steps in a plan.
StepsOf(plan, p) == {i \in 1..Len(plan) : IsStep(plan[i]) /\ plan[i].profile_name = p.name}

SeverityRank(sev) ==
  CASE sev = "info" -> 0 [] sev = "low" -> 1 [] sev = "medium" -> 2
    [] sev = "high" -> 3 [] sev = "critical" -> 4

\* The profile names of the model in lexicographic order.
NamesInOrder ==
  <<"chain_a", "chain_b", "cmdi_probe", "cycle_a", "cycle_b", "header_probe", "sqli_probe", "xss_probe">>

NameIndex(n) == CHOOSE i \in 1..Len(NamesInOrder) : NamesInOrder[i] = n

\* Severity descending, then name ascending.
OrderedBefore(a, b) ==
  \/ SeverityRank(a.severity) > SeverityRank(b.severity)
  \/ a.severity = b.severity /\ NameIndex(a.name) < NameIndex(b.name)

(***************************************************************************)
(* C1                                                                      *)
(***************************************************************************)

\* C1: a plan_attacks call that completes while no load_attack_profiles call
\* has yet completed fails with NotLoadedError; it returns no plan.
C1_PlanBeforeLoadFails ==
  \A t \in Threads :
    (pc[t] = "plan_done" /\ ~loaded) => ret[t].exc = "NotLoadedError"

(***************************************************************************)
(* C2                                                                      *)
(***************************************************************************)

\* C2: a load of a directory in which two documents declare the same name
\* fails with ConflictError and leaves the profiles visible to readers as
\* they were before the load.
C2_DuplicateNameFailsLoad ==
  [][\A t \in Threads :
       (LoadReturns(t) /\ HasDuplicateName(toys')) =>
         /\ ret'[t].exc = "ConflictError"
         /\ attack_profiles' = attack_profiles]_vars

(***************************************************************************)
(* C3                                                                      *)
(***************************************************************************)

\* The profiles a reader finds in attack_profiles.
Visible == {attack_profiles[i] : i \in 1..Len(attack_profiles)}

\* C3: what readers see is always one whole snapshot (the empty state or the
\* whole of one loaded directory), and at most one thread is inside
\* load_attack_profiles at a time.
C3_SnapshotAndSingleWriter ==
  /\ Visible \in Dirs
  /\ Cardinality({t \in Threads : pc[t] = "load"}) <= 1

(***************************************************************************)
(* C4                                                                      *)
(***************************************************************************)

\* C4: after a load of a directory without duplicate names, the plan for an
\* endpoint with no parameters and no request body is returned without an
\* error, holds only steps of the directory's global profiles, holds steps of
\* each of them, and is empty exactly when the directory has no global profile.
C4_FieldlessEndpointGetsGlobalSteps ==
  [][\A t \in Threads :
       (PlanReturns(t) /\ loaded /\ ~HasDuplicateName(toys)
          /\ ~HasParams(arg[t]) /\ ~HasBody(arg[t])) =>
         LET plan == ret'[t].value
         IN /\ ret'[t].exc = "none"
            /\ \A i \in 1..Len(plan) :
                 /\ IsStep(plan[i])
                 /\ \E p \in GlobalProfiles(toys) : plan[i].profile_name = p.name
            /\ \A p \in GlobalProfiles(toys) : StepsOf(plan, p) # {}
            /\ (plan = <<>>) <=> (GlobalProfiles(toys) = {})]_vars

(***************************************************************************)
(* C5                                                                      *)
(***************************************************************************)

\* C5: for every loaded profile P and every field of the endpoint that P
\* targets, the plan holds exactly one step per payload of P for that field,
\* in the order of P's payloads, each with the field's name and location and
\* P's severity.
C5_OneStepPerPayload ==
  [][\A t \in Threads :
       (PlanReturns(t) /\ loaded /\ ~HasDuplicateName(toys)
          /\ \A p \in toys : depends_on(p) = {}) =>
         LET plan == ret'[t].value
         IN \A p \in toys : \A f \in Fields(arg[t]) :
              f.name \in p.target_fields =>
                LET at == StepsAt(plan, p, f.name)
                IN /\ Cardinality(at) = Len(p.payloads)
                   /\ \A i \in at :
                        /\ plan[i].location = f.location
                        /\ plan[i].severity = p.severity
                        /\ plan[i].payload = p.payloads[Cardinality({j \in at : j <= i})]]_vars

(***************************************************************************)
(* C6                                                                      *)
(***************************************************************************)

\* C6: when two loaded profiles match the same field of the endpoint, the
\* plan holds the steps of both, those of the profile of higher severity
\* first, and for equal severities those of the profile whose name is
\* lexicographically smaller first.
C6_SeverityThenNameOrder ==
  [][\A t \in Threads :
       (PlanReturns(t) /\ loaded /\ ~HasDuplicateName(toys)
          /\ \A p \in toys : depends_on(p) = {}) =>
         LET plan == ret'[t].value
         IN \A a, b \in toys : \A f \in Fields(arg[t]) :
              (f.name \in a.target_fields /\ f.name \in b.target_fields /\ OrderedBefore(a, b)) =>
                /\ StepsAt(plan, a, f.name) # {}
                /\ StepsAt(plan, b, f.name) # {}
                /\ \A i \in StepsAt(plan, a, f.name) : \A j \in StepsAt(plan, b, f.name) : i < j]_vars

(***************************************************************************)
(* C7                                                                      *)
(***************************************************************************)

\* C7: when loaded profile A depends on loaded profile B and both match the
\* endpoint, every step of B stands before every step of A in the plan; when
\* A and B depend on each other, the plan_attacks call fails with CycleError.
C7_DependenciesOrderedCyclesFail ==
  [][\A t \in Threads :
       (PlanReturns(t) /\ loaded /\ ~HasDuplicateName(toys)) =>
         LET plan == ret'[t].value
         IN \A a, b \in toys :
              (a.name \in depends_on(b) /\ Matches(a, arg[t]) /\ Matches(b, arg[t])) =>
                IF b.name \in depends_on(a)
                THEN ret'[t].exc = "CycleError"
                ELSE \A i \in StepsOf(plan, a) : \A j \in StepsOf(plan, b) : i < j]_vars

(***************************************************************************)
(* C8                                                                      *)
(***************************************************************************)

\* C8: every element of a returned plan has the keys profile_name, endpoint,
\* method, field, location, payload(s), expected_indicators and severity; its
\* profile_name names a loaded profile and its expected_indicators are that
\* profile's success_indicators.
C8_StepShape ==
  [][\A t \in Threads :
       PlanReturns(t) =>
         LET plan == ret'[t].value
         IN \A i \in 1..Len(plan) :
              /\ IsStep(plan[i])
              /\ \E p \in toys :
                   /\ p.name = plan[i].profile_name
                   /\ p.success_indicators = plan[i].expected_indicators]_vars

(***************************************************************************)
(* C9                                                                      *)
(***************************************************************************)

\* C9: no step of a plan_attacks call changes attack_profiles or endpoints,
\* and a plan_attacks call for an endpoint that was planned before, with no
\* load since, returns what the earlier call returned.
C9_PlanDeterministicReadOnly ==
  [][\A t \in Threads :
       /\ (pc[t] # pc'[t] /\ pc'[t] \in {"plan", "plan_done"}) =>
            /\ attack_profiles' = attack_profiles
            /\ endpoints' = endpoints
       /\ (PlanReturns(t) /\ prev[arg[t]].seen) =>
            ret'[t] = Returned(prev[arg[t]].value)]_vars

\* A thread has completed a plan that repeats an earlier one for an endpoint
\* with parameters, with no load in between, and got its one attack again.
C9_Witness ==
  \E t \in Threads :
    /\ repeat = t
    /\ pc[t] = "plan_done"
    /\ HasParams(arg[t])
    /\ Len(ret[t].value) = 1

(***************************************************************************)
(* C10                                                                     *)
(***************************************************************************)

====
